---- MODULE Spec2Model ----
(***************************************************************************)
(* Model of the dropout-risk assessment engine                             *)
(* (backend/app/ml/risk_assessor.py, class RiskAssessor) together with the *)
(* configuration it reads (backend/app/core/config.py) and the records it  *)
(* queries (backend/app/models).                                           *)
(*                                                                         *)
(* Python floats are modelled as exact rationals <<n, d>> with d > 0.  For *)
(* the small numerators and denominators used here the float comparisons   *)
(* of the source agree with the exact ones: 3/4*100 = 75.0, 3/5*100 = 60.0 *)
(* and 3/10 = 0.3 hold exactly in IEEE double arithmetic.                  *)
(***************************************************************************)
EXTENDS Integers, Sequences, FiniteSets, TLC

VARIABLES
    settings,            \* core.config.settings: the four risk thresholds
    models,              \* RiskAssessor.models: model name -> loaded model
    scaler,              \* RiskAssessor.scaler: "fitted" or "unfitted"
    students,            \* students table: set of [id, enrollment_date]
    today,               \* datetime.now().date(), as a day number
    attendance,          \* attendance table: sequence of rows
    exam_scores,         \* exam_scores table: sequence of rows
    fees,                \* fees table: sequence of rows
    student,             \* the Student passed to the last call
    features,            \* the feature dict passed to / returned by the last call
    risk_levels,         \* value returned by the last rule_based_assessment call
    model_outputs,       \* what each loaded model answered during the last call
    ml_results,          \* value returned by the last ml_prediction call
    assessment,          \* value returned by the last assess_student_risk call
    recommendations,     \* <<list returned by the last generate_recommendations call>>
    active,              \* ids of the students whose is_active is true
    faulty,              \* ids of the students whose assessment raises
    risk_assessments,    \* risk_assessments table: the committed rows
    session,             \* the request's Session: objects added, not yet committed
    request,             \* the endpoint call in progress, or its outcome
    log,                 \* the lines printed by the endpoints
    artifacts,           \* model directory: file name -> stored object
    training_data,       \* the dataset passed to the last train_models call
    train_result         \* outcome of the last train_models call

vars == <<settings, models, scaler, students, today, attendance, exam_scores,
          fees, student, features, risk_levels, model_outputs, ml_results,
          assessment, recommendations, active, faulty, risk_assessments,
          session, request, log, artifacts, training_data, train_result>>

\* The configuration and the predictor's state; the database.
assessorVars == <<settings, models, scaler>>
dbVars == <<students, today, attendance, exam_scores, fees>>

\* What the API endpoints work on; what training works on.
endpointVars == <<active, faulty, risk_assessments, session, request, log>>
trainVars == <<artifacts, training_data, train_result>>

\* Python's None: no value / no call made yet.
None == << >>

\* No endpoint has been called and nothing is stored; no training has run
\* and the model directory is empty.
NoEndpoint ==
    /\ active = {}
    /\ faulty = {}
    /\ risk_assessments = << >>
    /\ session = << >>
    /\ request = None
    /\ log = << >>

NoTraining ==
    /\ artifacts = << >>
    /\ training_data = None
    /\ train_result = None

----------------------------------------------------------------------------
(* Exact rational arithmetic standing for Python float arithmetic.         *)

Rat(n, d) == <<n, d>>
Zero == Rat(0, 1)

Abs(n) == IF n < 0 THEN -n ELSE n
RECURSIVE GCD(_, _)
GCD(a, b) == IF b = 0 THEN a ELSE GCD(b, a % b)

\* The same number in lowest terms.
Norm(a) == LET g == GCD(Abs(a[1]), a[2]) IN Rat(a[1] \div g, a[2] \div g)
RGe(a, b) == a[1] * b[2] >= b[1] * a[2]
RLe(a, b) == RGe(b, a)
RLt(a, b) == ~RGe(a, b)
RGt(a, b) == ~RGe(b, a)
REq(a, b) == a[1] * b[2] = b[1] * a[2]

\* dict.get(key, default)
Get(dict, key, default) == IF key \in DOMAIN dict THEN dict[key] ELSE default

----------------------------------------------------------------------------
(* core/config.py: Settings.  The defaults, and the threshold sets an      *)
(* environment / .env file may configure instead.                          *)

DefaultSettings ==
    [ATTENDANCE_SAFE_THRESHOLD    |-> Rat(75, 1),
     ATTENDANCE_WARNING_THRESHOLD |-> Rat(60, 1),
     SCORE_SAFE_THRESHOLD         |-> Rat(60, 1),
     SCORE_WARNING_THRESHOLD      |-> Rat(40, 1)]

SettingsConfigs ==
    {DefaultSettings,
     [ATTENDANCE_SAFE_THRESHOLD    |-> Rat(80, 1),
      ATTENDANCE_WARNING_THRESHOLD |-> Rat(50, 1),
      SCORE_SAFE_THRESHOLD         |-> Rat(70, 1),
      SCORE_WARNING_THRESHOLD      |-> Rat(35, 1)],
     [ATTENDANCE_SAFE_THRESHOLD    |-> Rat(90, 1),
      ATTENDANCE_WARNING_THRESHOLD |-> Rat(75, 1),
      SCORE_SAFE_THRESHOLD         |-> Rat(50, 1),
      SCORE_WARNING_THRESHOLD      |-> Rat(50, 1)]}

----------------------------------------------------------------------------
(* RiskAssessor.rule_based_assessment                                      *)

\* Mutant: the safe threshold compared with > instead of >=.
AttendanceRiskStrict(f) ==
    LET attendance_percentage == Get(f, "attendance_percentage", Zero) IN
    IF RGt(attendance_percentage, settings.ATTENDANCE_SAFE_THRESHOLD) THEN "green"
    ELSE IF RGe(attendance_percentage, settings.ATTENDANCE_WARNING_THRESHOLD)
         THEN "yellow"
    ELSE "red"

AttendanceRisk(f) ==
    LET attendance_percentage == Get(f, "attendance_percentage", Zero) IN
    IF RGe(attendance_percentage, settings.ATTENDANCE_SAFE_THRESHOLD) THEN "green"
    ELSE IF RGe(attendance_percentage, settings.ATTENDANCE_WARNING_THRESHOLD)
         THEN "yellow"
    ELSE "red"

\* Mutant: the academic level read from the attendance thresholds.
AcademicRiskWrongThresholds(f) ==
    LET avg_score == Get(f, "average_score", Zero) IN
    IF RGe(avg_score, settings.ATTENDANCE_SAFE_THRESHOLD) THEN "green"
    ELSE IF RGe(avg_score, settings.ATTENDANCE_WARNING_THRESHOLD) THEN "yellow"
    ELSE "red"

AcademicRisk(f) ==
    LET avg_score == Get(f, "average_score", Zero) IN
    IF RGe(avg_score, settings.SCORE_SAFE_THRESHOLD) THEN "green"
    ELSE IF RGe(avg_score, settings.SCORE_WARNING_THRESHOLD) THEN "yellow"
    ELSE "red"

\* Mutant: the 0.3 cut-off compared with < instead of <=.
FinancialRiskStrict(f) ==
    LET overdue_ratio == Get(f, "overdue_fees_ratio", Zero) IN
    IF REq(overdue_ratio, Zero) THEN "green"
    ELSE IF RLt(overdue_ratio, Rat(3, 10)) THEN "yellow"
    ELSE "red"

FinancialRisk(f) ==
    LET overdue_ratio == Get(f, "overdue_fees_ratio", Zero) IN
    IF REq(overdue_ratio, Zero) THEN "green"
    ELSE IF RLe(overdue_ratio, Rat(3, 10)) THEN "yellow"
    ELSE "red"

risk_values == [green |-> 1, yellow |-> 2, red |-> 3]

SetMax(S) == CHOOSE x \in S : \A y \in S : y <= x

\* Mutant: the financial category left out of the worst-case aggregation.
OverallRiskNoFinancial(levels) ==
    LET max_risk == SetMax({risk_values[Get(levels, key, "green")] :
                              key \in {"attendance", "academic"}})
    IN IF max_risk = 1 THEN "green"
       ELSE IF max_risk = 2 THEN "yellow"
       ELSE "red"

OverallRisk(levels) ==
    LET max_risk == SetMax({risk_values[Get(levels, key, "green")] :
                              key \in {"attendance", "academic", "financial"}})
    IN IF max_risk = 1 THEN "green"
       ELSE IF max_risk = 2 THEN "yellow"
       ELSE "red"

rule_based_assessment(f) ==
    LET levels == [attendance |-> AttendanceRisk(f),
                   academic   |-> AcademicRisk(f),
                   financial  |-> FinancialRisk(f)]
    IN [attendance |-> levels.attendance,
        academic   |-> levels.academic,
        financial  |-> levels.financial,
        overall    |-> OverallRisk(levels)]

----------------------------------------------------------------------------
(* Inputs of the rule-based classifier: feature dicts over the three keys  *)
(* it reads, each key possibly missing, with values on, next to and far    *)
(* from every configured cut-off (and outside the documented ranges).      *)

AttendanceValues ==
    {Rat(-1, 1), Zero, Rat(50, 1), Rat(599, 10), Rat(60, 1), Rat(749, 10),
     Rat(75, 1), Rat(80, 1), Rat(100, 1), Rat(150, 1)}

ScoreValues ==
    {Zero, Rat(35, 1), Rat(399, 10), Rat(40, 1), Rat(50, 1), Rat(599, 10),
     Rat(60, 1), Rat(70, 1), Rat(100, 1)}

RatioValues ==
    {Zero, Rat(1, 10), Rat(1, 5), Rat(3, 10), Rat(6, 20), Rat(31, 100),
     Rat(1, 2), Rat(51, 100), Rat(1, 1)}

Missing == << >>

FeatureDict(att, score, ratio) ==
    LET keys == (IF att = Missing THEN {} ELSE {"attendance_percentage"})
                \cup (IF score = Missing THEN {} ELSE {"average_score"})
                \cup (IF ratio = Missing THEN {} ELSE {"overdue_fees_ratio"})
    IN [k \in keys |-> CASE k = "attendance_percentage" -> att
                         [] k = "average_score" -> score
                         [] k = "overdue_fees_ratio" -> ratio]

RuleInputs ==
    {FeatureDict(att, score, ratio) :
        att \in AttendanceValues \cup {Missing},
        score \in ScoreValues \cup {Missing},
        ratio \in RatioValues \cup {Missing}}

\* State shared by the specifications that do not use the database.
NoDatabase ==
    /\ students = {}
    /\ today = 0
    /\ attendance = << >>
    /\ exam_scores = << >>
    /\ fees = << >>

InitRules ==
    /\ recommendations = None
    /\ NoEndpoint
    /\ NoTraining
    /\ settings \in SettingsConfigs
    /\ models = << >>
    /\ scaler = "unfitted"
    /\ NoDatabase
    /\ student = None
    /\ features \in RuleInputs
    /\ risk_levels = None
    /\ model_outputs = None
    /\ ml_results = None
    /\ assessment = None

CallRuleBasedAssessment ==
    /\ risk_levels = None
    /\ risk_levels' = rule_based_assessment(features)
    /\ UNCHANGED <<assessorVars, dbVars, student, features, model_outputs,
                   ml_results, assessment>>
    /\ UNCHANGED <<recommendations, endpointVars, trainVars>>

NextRules == CallRuleBasedAssessment

SpecRules == InitRules /\ [][NextRules]_vars

----------------------------------------------------------------------------
(* RiskAssessor.ml_prediction                                              *)

RAdd(a, b) == Norm(Rat(a[1] * b[2] + b[1] * a[2], a[2] * b[2]))
RDivInt(a, n) == Norm(Rat(a[1], a[2] * n))

RECURSIVE RSum(_)
RSum(seq) == IF seq = << >> THEN Zero ELSE RAdd(Head(seq), RSum(Tail(seq)))

\* Mutant: the sum divided by the number of model slots instead of by the
\* number of predictions made.
MeanOverTwo(seq) == RDivInt(RSum(seq), 2)

\* np.mean of a non-empty list
Mean(seq) == RDivInt(RSum(seq), Len(seq))

\* float('nan')
NaN == Rat(0, 0)

\* The names load_models and train_models store models under, in the order
\* they are inserted into the dict.
ModelOrder == <<"logistic", "random_forest">>
ModelNames == {ModelOrder[i] : i \in 1..Len(ModelOrder)}

\* A loaded model is known by whether it offers predict_proba.
ModelKinds == [has_predict_proba : BOOLEAN]
ModelSets == UNION {[S -> ModelKinds] : S \in SUBSET ModelNames}

ScalerStates == {"unfitted", "fitted", "mismatched"}

feature_names ==
    <<"attendance_percentage", "average_score", "score_std", "failed_exams",
      "overdue_fees_ratio", "days_enrolled">>

\* Lines 171-179: the ordered vector, 0 for a missing or NaN value.
FeatureVector(f) ==
    [i \in 1..Len(feature_names) |->
        LET value == Get(f, feature_names[i], Zero) IN
        IF value = NaN THEN Zero ELSE value]

\* Lines 181-185: scaler.transform raises unless the scaler is fitted on a
\* vector of this shape; the unscaled vector is used then.
ScaleFeatures(x) ==
    IF scaler = "fitted" THEN [scaled |-> TRUE, vector |-> x]
    ELSE [scaled |-> FALSE, vector |-> x]

\* What a model may answer on an input: its inference is opaque, so any
\* answer its interface allows, or an exception.  predict_proba yields one
\* probability per class (one, two or three classes here); predict yields a
\* class label or regression value, which need not lie in [0, 1].
ProbaTenths == {0, 1, 3, 5, 6, 10}
ProbaVectors ==
    {<<Rat(10, 10)>>, <<Rat(2, 10), Rat(3, 10), Rat(5, 10)>>}
    \cup {<<Rat(10 - k, 10), Rat(k, 10)>> : k \in ProbaTenths}
ClassLabels == {-1, 0, 1, 2}

RaisesOutput == [raises |-> TRUE, proba |-> << >>, pred |-> Zero]
ProbaOutputs ==
    {[raises |-> FALSE, proba |-> v, pred |-> Zero] : v \in ProbaVectors}
    \cup {RaisesOutput}
PredOutputs ==
    {[raises |-> FALSE, proba |-> << >>, pred |-> Rat(l, 1)] : l \in ClassLabels}
    \cup {RaisesOutput}

ModelOutputs(model, x) ==
    IF model.has_predict_proba THEN ProbaOutputs ELSE PredOutputs

\* Lines 193-198: the score of a model that answered.
ModelScore(model, out) ==
    IF model.has_predict_proba
    THEN (IF Len(out.proba) > 1 THEN out.proba[2] ELSE out.proba[1])
    ELSE out.pred

\* Lines 192-203: one iteration of the loop over the models.
PredictOne(model, out) ==
    IF out.raises
    THEN [prediction |-> Rat(1, 2), confidence |-> Zero]
    ELSE [prediction |-> ModelScore(model, out), confidence |-> Rat(8, 10)]

\* Mutant: the first exception ends the loop, and every model from the
\* failing one on is given the neutral entry.
RunModelsAbortOnFailure(ms, outs) ==
    [n \in DOMAIN ms |->
        IF \E m \in DOMAIN ms : outs[m].raises
        THEN [prediction |-> Rat(1, 2), confidence |-> Zero]
        ELSE PredictOne(ms[n], outs[n])]

\* Lines 191-203: every loaded model is tried, each in its own try block.
RunModels(ms, outs) ==
    [n \in DOMAIN ms |-> PredictOne(ms[n], outs[n])]

\* The loaded names in dict order.
LoadedOrder(ms) == SelectSeq(ModelOrder, LAMBDA n : n \in DOMAIN ms)

\* Mutant: no model available reported as probability 0.
NeutralPriorZero == [dropout_probability |-> Zero, confidence |-> Zero]

\* Line 159.
NeutralPrior == [dropout_probability |-> Rat(1, 2), confidence |-> Zero]

ml_prediction(f, outs) ==
    IF DOMAIN models = {}
    THEN NeutralPrior
    ELSE
        LET run == RunModels(models, outs)
            order == LoadedOrder(models)
            predictions == [n \in DOMAIN models |-> run[n].prediction]
            confidences == [n \in DOMAIN models |-> run[n].confidence]
            values(d) == [i \in 1..Len(order) |-> d[order[i]]]
        IN [dropout_probability |->
                IF DOMAIN predictions # {} THEN Mean(values(predictions))
                ELSE Rat(1, 2),
            confidence |->
                IF DOMAIN predictions # {} THEN Mean(values(confidences))
                ELSE Zero,
            model_predictions |-> predictions]

\* Feature dicts handed to the predictor: empty, complete, and with a NaN.
MLInputs ==
    {<< >>,
     [attendance_percentage |-> Rat(80, 1), average_score |-> Rat(70, 1),
      score_std |-> Rat(5, 1), failed_exams |-> Zero,
      overdue_fees_ratio |-> Zero, days_enrolled |-> Rat(30, 1)],
     [attendance_percentage |-> Rat(50, 1), average_score |-> NaN,
      overdue_fees_ratio |-> Rat(6, 10)]}

InitML ==
    /\ recommendations = None
    /\ NoEndpoint
    /\ NoTraining
    /\ settings = DefaultSettings
    /\ models \in ModelSets
    /\ scaler \in ScalerStates
    /\ NoDatabase
    /\ student = None
    /\ features \in MLInputs
    /\ risk_levels = None
    /\ model_outputs = None
    /\ ml_results = None
    /\ assessment = None

CallMlPrediction ==
    /\ ml_results = None
    /\ LET x == ScaleFeatures(FeatureVector(features)) IN
       \E outs \in [DOMAIN models -> ProbaOutputs \cup PredOutputs] :
           /\ \A n \in DOMAIN models : outs[n] \in ModelOutputs(models[n], x)
           /\ model_outputs' = outs
           /\ ml_results' = ml_prediction(features, outs)
    /\ UNCHANGED <<assessorVars, dbVars, student, features, risk_levels,
                   assessment>>
    /\ UNCHANGED <<recommendations, endpointVars, trainVars>>

NextML == CallMlPrediction

SpecML == InitML /\ [][NextML]_vars

----------------------------------------------------------------------------
(* The records extract_features queries (backend/app/models).              *)

RSub(a, b) == Norm(Rat(a[1] * b[2] - b[1] * a[2], a[2] * b[2]))
RMul(a, b) == Norm(Rat(a[1] * b[1], a[2] * b[2]))

\* np.std: the population standard deviation, kept exact as the square
\* root of the variance, <<n, d, "sqrt">> (0.0 when the variance is 0).
Sqrt(v) == IF v[1] = 0 THEN Zero ELSE <<v[1], v[2], "sqrt">>
Std(seq) ==
    LET mu == Mean(seq)
        squares == [i \in 1..Len(seq) |-> RMul(seq[i], seq[i])]
    IN Sqrt(RSub(Mean(squares), RMul(mu, mu)))

NumStudents == 2
MaxDay == 1
MaxRows == 2

StudentIds == 1..NumStudents
Days == 0..MaxDay

\* Student.enrollment_date: << >> when unknown, <<day>> otherwise.
Students == [id : StudentIds, enrollment_date : {<< >>, <<0>>}]

AttendanceRows == [student_id : StudentIds, is_present : BOOLEAN]

\* ExamScore.exam is the related Exam (None when absent) with its total_marks.
Exams == {None} \cup {[total_marks |-> t] : t \in {0, 100}}
ExamScoreRows == [student_id : StudentIds, marks_obtained : {30, 80}, exam : Exams]

FeeRows == [student_id : StudentIds, is_overdue : BOOLEAN]

\* ExamScore.percentage
percentage(score) ==
    IF score.exam # None /\ score.exam.total_marks > 0
    THEN Rat(score.marks_obtained * 100, score.exam.total_marks)
    ELSE Zero

\* db.query(T).filter(T.student_id == student.id).all()
RowsOf(table, id) == SelectSeq(table, LAMBDA row : row.student_id = id)

----------------------------------------------------------------------------
(* RiskAssessor.extract_features                                           *)

\* Mutant: a student without sessions reported as fully present.
AttendanceFeaturesDefaultFull(id) ==
    LET attendance_records == RowsOf(attendance, id) IN
    IF attendance_records # << >>
    THEN LET total_sessions == Len(attendance_records)
             present_sessions ==
                 Len(SelectSeq(attendance_records, LAMBDA record : record.is_present))
         IN [attendance_percentage |-> Rat(present_sessions * 100, total_sessions),
             total_sessions |-> Rat(total_sessions, 1)]
    ELSE [attendance_percentage |-> Rat(100, 1), total_sessions |-> Zero]

\* Mutant: the present sessions counted over the whole table, the filter on
\* the student forgotten.
AttendanceFeaturesUnfilteredPresent(id) ==
    LET attendance_records == RowsOf(attendance, id) IN
    IF attendance_records # << >>
    THEN LET total_sessions == Len(attendance_records)
             present_sessions ==
                 Len(SelectSeq(attendance, LAMBDA record : record.is_present))
         IN [attendance_percentage |-> Rat(present_sessions * 100, total_sessions),
             total_sessions |-> Rat(total_sessions, 1)]
    ELSE [attendance_percentage |-> Zero, total_sessions |-> Zero]

\* Lines 51-67.
AttendanceFeatures(id) ==
    LET attendance_records == RowsOf(attendance, id) IN
    IF attendance_records # << >>
    THEN LET total_sessions == Len(attendance_records)
             present_sessions ==
                 Len(SelectSeq(attendance_records, LAMBDA record : record.is_present))
         IN [attendance_percentage |-> Rat(present_sessions * 100, total_sessions),
             total_sessions |-> Rat(total_sessions, 1)]
    ELSE [attendance_percentage |-> Zero, total_sessions |-> Zero]

\* Lines 69-84.
AcademicFeatures(id) ==
    LET rows == RowsOf(exam_scores, id) IN
    IF rows # << >>
    THEN LET scores == [i \in 1..Len(rows) |-> percentage(rows[i])]
         IN [average_score |-> Mean(scores),
             score_std |-> Std(scores),
             failed_exams |->
                 Rat(Len(SelectSeq(scores, LAMBDA score : RLt(score, Rat(40, 1)))), 1),
             total_exams |-> Rat(Len(scores), 1)]
    ELSE [average_score |-> Zero, score_std |-> Zero, failed_exams |-> Zero,
          total_exams |-> Zero]

\* Lines 86-100.
FinancialFeatures(id) ==
    LET fee_records == RowsOf(fees, id) IN
    IF fee_records # << >>
    THEN LET overdue_fees ==
                 Len(SelectSeq(fee_records, LAMBDA fee : fee.is_overdue))
             total_fees == Len(fee_records)
         IN [overdue_fees_count |-> Rat(overdue_fees, 1),
             total_fees |-> Rat(total_fees, 1),
             overdue_fees_ratio |->
                 IF total_fees > 0 THEN Rat(overdue_fees, total_fees) ELSE Zero]
    ELSE [overdue_fees_count |-> Zero, total_fees |-> Zero,
          overdue_fees_ratio |-> Zero]

\* Mutant: days_enrolled defaulted to 0 when the enrollment date is unknown.
TemporalFeaturesDefaultZero(st) ==
    IF st.enrollment_date # << >>
    THEN [days_enrolled |-> Rat(today - st.enrollment_date[1], 1)]
    ELSE [days_enrolled |-> Zero]

\* Lines 102-105: days_enrolled only when the enrollment date is set.
TemporalFeatures(st) ==
    IF st.enrollment_date # << >>
    THEN [days_enrolled |-> Rat(today - st.enrollment_date[1], 1)]
    ELSE << >>

extract_features(st) ==
    AttendanceFeatures(st.id) @@ AcademicFeatures(st.id)
    @@ FinancialFeatures(st.id) @@ TemporalFeatures(st)

----------------------------------------------------------------------------
(* RiskAssessor.generate_recommendations                                   *)

\* Lines 264-275.
AttendanceRecommendations(f, levels) ==
    IF Get(levels, "attendance", None) \in {"yellow", "red"}
    THEN LET attendance_percentage == Get(f, "attendance_percentage", Zero) IN
         (IF RLt(attendance_percentage, Rat(60, 1))
          THEN <<"Immediate intervention required for attendance">>
          ELSE IF RLt(attendance_percentage, Rat(75, 1))
          THEN <<"Schedule meeting with student and parents about attendance">>
          ELSE << >>)
         \o <<"Implement attendance tracking and early warning system">>
    ELSE << >>

\* Mutant: the peer-mentor reminder appended only together with one of the
\* two score messages.
AcademicRecommendationsSpecificOnly(f, levels) ==
    IF Get(levels, "academic", None) \in {"yellow", "red"}
    THEN LET avg_score == Get(f, "average_score", Zero) IN
         IF RLt(avg_score, Rat(40, 1))
         THEN <<"Urgent academic support needed",
                "Assign peer mentor for academic support">>
         ELSE IF RLt(avg_score, Rat(60, 1))
         THEN <<"Schedule extra classes and academic counseling",
                "Assign peer mentor for academic support">>
         ELSE << >>
    ELSE << >>

\* Lines 277-284.
AcademicRecommendations(f, levels) ==
    IF Get(levels, "academic", None) \in {"yellow", "red"}
    THEN LET avg_score == Get(f, "average_score", Zero) IN
         (IF RLt(avg_score, Rat(40, 1))
          THEN <<"Urgent academic support needed">>
          ELSE IF RLt(avg_score, Rat(60, 1))
          THEN <<"Schedule extra classes and academic counseling">>
          ELSE << >>)
         \o <<"Assign peer mentor for academic support">>
    ELSE << >>

\* Mutant: the payment discussion scheduled from a ratio of 0.2 on.
FinancialRecommendationsInclusive(f, levels) ==
    IF Get(levels, "financial", None) \in {"yellow", "red"}
    THEN LET overdue_ratio == Get(f, "overdue_fees_ratio", Zero) IN
         (IF RGt(overdue_ratio, Rat(5, 10))
          THEN <<"Immediate financial counseling required">>
          ELSE IF RGe(overdue_ratio, Rat(2, 10))
          THEN <<"Schedule fee payment discussion">>
          ELSE << >>)
         \o <<"Explore financial aid and payment plan options">>
    ELSE << >>

\* Mutant: financial counseling required only above a ratio of 0.6.
FinancialRecommendationsHighCutoff(f, levels) ==
    IF Get(levels, "financial", None) \in {"yellow", "red"}
    THEN LET overdue_ratio == Get(f, "overdue_fees_ratio", Zero) IN
         (IF RGt(overdue_ratio, Rat(6, 10))
          THEN <<"Immediate financial counseling required">>
          ELSE IF RGt(overdue_ratio, Rat(2, 10))
          THEN <<"Schedule fee payment discussion">>
          ELSE << >>)
         \o <<"Explore financial aid and payment plan options">>
    ELSE << >>

\* Lines 286-293.
FinancialRecommendations(f, levels) ==
    IF Get(levels, "financial", None) \in {"yellow", "red"}
    THEN LET overdue_ratio == Get(f, "overdue_fees_ratio", Zero) IN
         (IF RGt(overdue_ratio, Rat(5, 10))
          THEN <<"Immediate financial counseling required">>
          ELSE IF RGt(overdue_ratio, Rat(2, 10))
          THEN <<"Schedule fee payment discussion">>
          ELSE << >>)
         \o <<"Explore financial aid and payment plan options">>
    ELSE << >>

\* Mutant: the moderate-risk message given from probability 0.5 on.
MLRecommendationsModerateAtHalf(ml) ==
    LET dropout_prob == Get(ml, "dropout_probability", Rat(1, 2)) IN
    IF RGt(dropout_prob, Rat(7, 10))
    THEN <<"High dropout risk - implement comprehensive intervention plan">>
    ELSE IF RGe(dropout_prob, Rat(5, 10))
    THEN <<"Moderate dropout risk - monitor closely and provide support">>
    ELSE << >>

\* Lines 295-304.
MLRecommendations(ml) ==
    LET dropout_prob == Get(ml, "dropout_probability", Rat(1, 2)) IN
    IF RGt(dropout_prob, Rat(7, 10))
    THEN <<"High dropout risk - implement comprehensive intervention plan">>
    ELSE IF RGt(dropout_prob, Rat(5, 10))
    THEN <<"Moderate dropout risk - monitor closely and provide support">>
    ELSE << >>

\* Lines 306-310.
GeneralRecommendations(levels) ==
    IF levels["overall"] = "red"
    THEN <<"Schedule comprehensive counseling session",
           "Involve parents/guardians in intervention plan",
           "Weekly progress monitoring required">>
    ELSE << >>

generate_recommendations(f, levels, ml) ==
    AttendanceRecommendations(f, levels) \o AcademicRecommendations(f, levels)
    \o FinancialRecommendations(f, levels) \o MLRecommendations(ml)
    \o GeneralRecommendations(levels)

\* SpecRecs: the rule levels of a feature dict, then the recommendations for
\* it, as assess_student_risk chains them (lines 225 and 240).  The predictor's
\* answer is an input; each call is made once.
ProbabilityValues ==
    {Zero, Rat(3, 10), Rat(1, 2), Rat(51, 100), Rat(7, 10), Rat(71, 100),
     Rat(1, 1)}

MLResultInputs ==
    {[dropout_probability |-> p, confidence |-> Zero] : p \in ProbabilityValues}

InitRecs ==
    /\ recommendations = None
    /\ NoEndpoint
    /\ NoTraining
    /\ settings \in SettingsConfigs
    /\ models = << >>
    /\ scaler = "unfitted"
    /\ NoDatabase
    /\ student = None
    /\ features \in RuleInputs
    /\ risk_levels = None
    /\ model_outputs = None
    /\ ml_results \in MLResultInputs
    /\ assessment = None

\* The returned list is kept wrapped, <<list>>, so that an empty list differs
\* from no call.
CallGenerateRecommendations ==
    /\ risk_levels # None
    /\ recommendations = None
    /\ recommendations' =
           <<generate_recommendations(features, risk_levels, ml_results)>>
    /\ UNCHANGED <<assessorVars, dbVars, student, features, risk_levels,
                   model_outputs, ml_results, assessment>>
    /\ UNCHANGED <<endpointVars, trainVars>>

NextRecs == CallRuleBasedAssessment \/ CallGenerateRecommendations

SpecRecs == InitRecs /\ [][NextRecs]_vars

----------------------------------------------------------------------------
(* RiskAssessor.assess_student_risk                                        *)

\* Mutant: the bucket boundaries compared with <= instead of <.
MlRiskLevelInclusive(dropout_prob) ==
    IF RLe(dropout_prob, Rat(3, 10)) THEN "green"
    ELSE IF RLe(dropout_prob, Rat(6, 10)) THEN "yellow"
    ELSE "red"

\* Lines 230-237.
MlRiskLevel(dropout_prob) ==
    IF RLt(dropout_prob, Rat(3, 10)) THEN "green"
    ELSE IF RLt(dropout_prob, Rat(6, 10)) THEN "yellow"
    ELSE "red"

assess_student_risk(st, outs) ==
    LET f == extract_features(st)
        levels == rule_based_assessment(f)
        ml == ml_prediction(f, outs)
    IN [student_id |-> st.id,
        assessment_date |-> today,
        features |-> f,
        rule_based_risk |-> levels,
        ml_prediction |-> ml,
        ml_risk_level |-> MlRiskLevel(ml.dropout_probability),
        recommendations |-> generate_recommendations(f, levels, ml),
        overall_risk |-> levels["overall"]]

----------------------------------------------------------------------------
(* Spec: the records of the students grow, and features are extracted from *)
(* them.  The values of the last call are dropped when the records change. *)

NoCall ==
    /\ student = None
    /\ features = None
    /\ risk_levels = None
    /\ model_outputs = None
    /\ ml_results = None
    /\ assessment = None

Init ==
    /\ recommendations = None
    /\ NoEndpoint
    /\ NoTraining
    /\ settings = DefaultSettings
    /\ models = << >>
    /\ scaler = "unfitted"
    /\ students \in {S \in SUBSET Students :
                        \A id \in StudentIds :
                            Cardinality({st \in S : st.id = id}) = 1}
    /\ today = MaxDay
    /\ attendance = << >>
    /\ exam_scores = << >>
    /\ fees = << >>
    /\ NoCall

\* The values of the last call are dropped.
ClearCall ==
    /\ student' = None
    /\ features' = None
    /\ risk_levels' = None
    /\ model_outputs' = None
    /\ ml_results' = None
    /\ assessment' = None

TotalRows == Len(attendance) + Len(exam_scores) + Len(fees)

AddAttendance(row) ==
    /\ TotalRows < MaxRows
    /\ attendance' = Append(attendance, row)
    /\ ClearCall
    /\ UNCHANGED <<assessorVars, students, today, exam_scores, fees>>
    /\ UNCHANGED <<recommendations, endpointVars, trainVars>>

AddExamScore(row) ==
    /\ TotalRows < MaxRows
    /\ exam_scores' = Append(exam_scores, row)
    /\ ClearCall
    /\ UNCHANGED <<assessorVars, students, today, attendance, fees>>
    /\ UNCHANGED <<recommendations, endpointVars, trainVars>>

AddFee(row) ==
    /\ TotalRows < MaxRows
    /\ fees' = Append(fees, row)
    /\ ClearCall
    /\ UNCHANGED <<assessorVars, students, today, attendance, exam_scores>>
    /\ UNCHANGED <<recommendations, endpointVars, trainVars>>

CallExtractFeatures(st) ==
    /\ student' = st
    /\ features' = extract_features(st)
    /\ UNCHANGED <<assessorVars, dbVars, risk_levels, model_outputs, ml_results,
                   assessment>>
    /\ UNCHANGED <<recommendations, endpointVars, trainVars>>

Next ==
    \/ \E row \in AttendanceRows : AddAttendance(row)
    \/ \E row \in ExamScoreRows : AddExamScore(row)
    \/ \E row \in FeeRows : AddFee(row)
    \/ \E st \in students : CallExtractFeatures(st)

Spec == Init /\ [][Next]_vars

----------------------------------------------------------------------------
(* SpecAssess: complete assessments of the students of a given database by *)
(* a predictor with any set of loaded models.                              *)

\* Student 1 attends 1 session of 2, has one exam at 30% and an overdue fee;
\* every other student has no records.
SampleAttendance ==
    <<[student_id |-> 1, is_present |-> TRUE],
      [student_id |-> 1, is_present |-> FALSE]>>
SampleExamScores ==
    <<[student_id |-> 1, marks_obtained |-> 30, exam |-> [total_marks |-> 100]]>>
SampleFees == <<[student_id |-> 1, is_overdue |-> TRUE]>>

\* A second database.  Student 1 attends 4 sessions of 5, has one exam at 70%
\* and a fee that is not overdue; student 2 attends 1 session of 2, has no
\* exam scores and 3 overdue fees of 5.
ScenarioAttendance ==
    [i \in 1..5 |-> [student_id |-> 1, is_present |-> i # 5]]
    \o <<[student_id |-> 2, is_present |-> TRUE],
          [student_id |-> 2, is_present |-> FALSE]>>
ScenarioExamScores ==
    <<[student_id |-> 1, marks_obtained |-> 70, exam |-> [total_marks |-> 100]]>>
ScenarioFees ==
    <<[student_id |-> 1, is_overdue |-> FALSE]>>
    \o [i \in 1..5 |-> [student_id |-> 2, is_overdue |-> i <= 3]]

SampleDatabases ==
    {[attendance |-> SampleAttendance, exam_scores |-> SampleExamScores,
      fees |-> SampleFees],
     [attendance |-> ScenarioAttendance, exam_scores |-> ScenarioExamScores,
      fees |-> ScenarioFees]}

InitAssess ==
    /\ recommendations = None
    /\ NoEndpoint
    /\ NoTraining
    /\ settings = DefaultSettings
    /\ models \in ModelSets
    /\ scaler \in ScalerStates
    /\ students = {[id |-> id, enrollment_date |-> <<0>>] : id \in StudentIds}
    /\ today \in Days
    /\ \E db \in SampleDatabases :
           /\ attendance = db.attendance
           /\ exam_scores = db.exam_scores
           /\ fees = db.fees
    /\ NoCall

CallAssessStudentRisk(st) ==
    /\ assessment = None
    /\ LET x == ScaleFeatures(FeatureVector(extract_features(st))) IN
       \E outs \in [DOMAIN models -> ProbaOutputs \cup PredOutputs] :
           /\ \A n \in DOMAIN models : outs[n] \in ModelOutputs(models[n], x)
           /\ model_outputs' = outs
           /\ assessment' = assess_student_risk(st, outs)
    /\ student' = st
    /\ UNCHANGED <<assessorVars, dbVars, features, risk_levels, ml_results>>
    /\ UNCHANGED <<recommendations, endpointVars, trainVars>>

NextAssess == \E st \in students : CallAssessStudentRisk(st)

SpecAssess == InitAssess /\ [][NextAssess]_vars

----------------------------------------------------------------------------
(* api/v1/endpoints/risk_assessment.py: POST /assess/{student_id} and POST *)
(* /assess-all.  Each request has its own Session (core/database.py,       *)
(* get_db) with autocommit and autoflush off: an added object reaches the  *)
(* table at commit only, and a query does not see the objects added.  The  *)
(* role test of /assess-all never fails, get_current_user giving "admin"   *)
(* or "mentor" only.                                                       *)

MaxAssessments == 2

\* The columns filled from an assessment result (lines 150-171, 214-239).
\* The text "\n".join(recommendations) is kept as the sequence of its lines.
RiskAssessmentRow(student_id, result) ==
    [student_id |-> student_id,
     assessment_date |-> result.assessment_date,
     attendance_risk |-> result.rule_based_risk["attendance"],
     academic_risk |-> result.rule_based_risk["academic"],
     financial_risk |-> result.rule_based_risk["financial"],
     overall_risk |-> result.rule_based_risk["overall"],
     dropout_probability |-> result.ml_prediction["dropout_probability"],
     ml_risk_level |-> result.ml_risk_level,
     ml_confidence |-> result.ml_prediction["confidence"],
     attendance_percentage |-> Get(result.features, "attendance_percentage", None),
     average_score |-> Get(result.features, "average_score", None),
     failed_subjects_count |-> Get(result.features, "failed_exams", None),
     overdue_fees_count |-> Get(result.features, "overdue_fees_count", None),
     feature_importance |-> Get(result.ml_prediction, "model_predictions", None),
     risk_factors |-> << >>,
     recommendations |-> result.recommendations]

\* RiskAssessor() of lines 143 and 192 finds the model directory empty, so the
\* predictor has no models and no model is asked.
NewAssessment(st) == RiskAssessmentRow(st.id, assess_student_risk(st, << >>))

\* db.query(Student).filter(Student.id == student_id).first()
StudentById(id) ==
    IF \E st \in students : st.id = id
    THEN CHOOSE st \in students : st.id = id
    ELSE None

\* Mutant: an assessment of any day counts as today's.
ExistingAssessmentAnyDay(table, id, day) ==
    \E i \in 1..Len(table) : table[i].student_id = id

\* Lines 198-205: a committed assessment of the student dated today.
ExistingAssessment(table, id, day) ==
    \E i \in 1..Len(table) :
        table[i].student_id = id /\ table[i].assessment_date = day

\* The orders in which .all() may return the rows of a query without ORDER BY.
Orders(ids) ==
    {order \in [1..Cardinality(ids) -> ids] :
        \A i, j \in 1..Cardinality(ids) : order[i] = order[j] => i = j}

\* Mutant: a session that commits each object as it is added.
AddAutocommit(table, row) == Append(table, row)

\* core/database.py line 18, autocommit=False: db.add leaves the table alone.
Add(table, row) == table

\* Mutant: the first failure ends the loop.
AfterFailureAbort(queue) == << >>

\* Lines 243-246: the failure is printed and the loop goes on with the next
\* student.
AfterFailure(queue) == Tail(queue)

\* Mutant: the counter starts at the number of active students.
CallCountingStudents(endpoint, pc, all, queue, made, rows, code, body) ==
    [endpoint |-> endpoint, pc |-> pc, active_students |-> all,
     queue |-> queue, assessments_created |-> Len(all), created |-> made,
     rows_before |-> rows, date |-> today, status |-> code, body |-> body]

\* The state of an endpoint call: its position, the loop's remaining students,
\* the counter, the objects it added, the number of rows committed before it
\* began, its date, and the HTTP status and body once it has answered.
Call(endpoint, pc, all, queue, made, rows, code, body) ==
    [endpoint |-> endpoint, pc |-> pc, active_students |-> all,
     queue |-> queue, assessments_created |-> Len(made), created |-> made,
     rows_before |-> rows, date |-> today, status |-> code, body |-> body]

Idle == IF request = None THEN TRUE ELSE request.pc = "done"

\* Lines 129-174.  An exception of the assessment or of the commit is not
\* caught: the request ends with status 500 and the session is discarded.
AssessStudent(student_id) ==
    /\ Idle
    /\ Len(risk_assessments) < MaxAssessments
    /\ LET st == StudentById(student_id)
           answer(code, body, made) ==
               Call("assess", "done", << >>, << >>, made,
                    Len(risk_assessments), code, body)
       IN IF st = None
          THEN /\ request' = answer(404, [detail |-> "Student not found"], << >>)
               /\ UNCHANGED risk_assessments
          ELSE IF student_id \in faulty
          THEN /\ request' = answer(500, [detail |-> "Internal Server Error"], << >>)
               /\ UNCHANGED risk_assessments
          ELSE LET row == NewAssessment(st) IN
               \/ /\ risk_assessments' = Append(Add(risk_assessments, row), row)
                  /\ request' = answer(200, row, <<row>>)
               \/ /\ request' = answer(500, [detail |-> "Internal Server Error"],
                                       <<row>>)
                  /\ UNCHANGED risk_assessments
    /\ session' = << >>
    /\ log' = << >>
    /\ UNCHANGED <<assessorVars, dbVars, student, features, risk_levels,
                   model_outputs, ml_results, assessment, recommendations>>
    /\ UNCHANGED <<active, faulty, trainVars>>

\* Lines 187-193: the call as it stands once the active students are read;
\* without any it answers at once.
Begin(order, table) ==
    IF order = << >>
    THEN Call("assess-all", "done", << >>, << >>, << >>, Len(table), 200,
              [message |-> <<"No active students found">>,
               assessments_created |-> 0])
    ELSE Call("assess-all", "loop", order, order, << >>, Len(table), 0, None)

\* Lines 195-246: one turn of the loop, for a call req with the objects sess
\* added to its session and the lines lg printed, over the committed table.
LoopTurn(req, sess, lg, table) ==
    LET id == Head(req.queue)
        pc == IF Len(req.queue) = 1 THEN "commit" ELSE "loop"
    IN IF ExistingAssessment(table, id, today)
       THEN [request |-> [req EXCEPT !.queue = Tail(@), !.pc = pc],
             session |-> sess, log |-> lg, table |-> table]
       ELSE IF id \in faulty
       THEN [request |-> [req EXCEPT
                             !.queue = AfterFailure(@),
                             !.pc = IF AfterFailure(req.queue) = << >>
                                    THEN "commit" ELSE "loop"],
             session |-> sess,
             log |-> Append(lg, <<"Error assessing student", id>>),
             table |-> table]
       ELSE LET row == NewAssessment(StudentById(id)) IN
            [request |-> [req EXCEPT
                             !.queue = Tail(@), !.pc = pc,
                             !.created = Append(@, row),
                             !.assessments_created = @ + 1],
             session |-> Append(sess, row),
             log |-> lg,
             table |-> Add(table, row)]

\* Lines 248-260: the one commit of the call, or its failure, the rollback and
\* the HTTP error.
Commit(req, sess, table) ==
    {[request |->
         [req EXCEPT
             !.pc = "done", !.status = 200,
             !.body =
                [message |-> <<"Risk assessment completed for",
                               Len(req.active_students), "students">>,
                 assessments_created |-> req.assessments_created]],
      table |-> table \o sess],
     [request |->
         [req EXCEPT
             !.pc = "done", !.status = 500,
             !.body = [detail |-> "Error saving assessments"]],
      table |-> table]}

\* Lines 177-193.
AssessAllBegin ==
    /\ Idle
    /\ session' = << >>
    /\ log' = << >>
    /\ IF active = {}
       THEN request' = Begin(<< >>, risk_assessments)
       ELSE \E order \in Orders(active) :
               request' = Begin(order, risk_assessments)
    /\ UNCHANGED <<assessorVars, dbVars, student, features, risk_levels,
                   model_outputs, ml_results, assessment, recommendations>>
    /\ UNCHANGED <<active, faulty, risk_assessments, trainVars>>

\* Lines 195-246.
AssessAllStep ==
    /\ request # None
    /\ request.endpoint = "assess-all"
    /\ request.pc = "loop"
    /\ LET out == LoopTurn(request, session, log, risk_assessments) IN
          /\ request' = out.request
          /\ session' = out.session
          /\ log' = out.log
          /\ risk_assessments' = out.table
    /\ UNCHANGED <<assessorVars, dbVars, student, features, risk_levels,
                   model_outputs, ml_results, assessment, recommendations>>
    /\ UNCHANGED <<active, faulty, trainVars>>

\* Lines 248-260.
AssessAllCommit ==
    /\ request # None
    /\ request.endpoint = "assess-all"
    /\ request.pc = "commit"
    /\ \E out \in Commit(request, session, risk_assessments) :
          /\ request' = out.request
          /\ risk_assessments' = out.table
    /\ session' = << >>
    /\ UNCHANGED <<assessorVars, dbVars, student, features, risk_levels,
                   model_outputs, ml_results, assessment, recommendations>>
    /\ UNCHANGED <<active, faulty, log, trainVars>>

\* datetime.now().date() moves on between two requests.
NextDay ==
    /\ Idle
    /\ today < MaxDay
    /\ today' = today + 1
    /\ UNCHANGED <<assessorVars, students, attendance, exam_scores, fees,
                   student, features, risk_levels, model_outputs, ml_results,
                   assessment, recommendations, endpointVars, trainVars>>

\* Students with the records of the first sample database; any of them may be
\* inactive, and the assessment of any of them may raise.
InitBatch ==
    /\ recommendations = None
    /\ NoTraining
    /\ settings = DefaultSettings
    /\ models = << >>
    /\ scaler = "unfitted"
    /\ students = {[id |-> id, enrollment_date |-> <<0>>] : id \in StudentIds}
    /\ today = 0
    /\ attendance = SampleAttendance
    /\ exam_scores = SampleExamScores
    /\ fees = SampleFees
    /\ NoCall
    /\ active \in SUBSET StudentIds
    /\ faulty \in SUBSET StudentIds
    /\ risk_assessments = << >>
    /\ session = << >>
    /\ request = None
    /\ log = << >>

NextBatch ==
    \/ \E student_id \in 0..NumStudents : AssessStudent(student_id)
    \/ AssessAllBegin
    \/ AssessAllStep
    \/ AssessAllCommit
    \/ NextDay

SpecBatch == InitBatch /\ [][NextBatch]_vars

----------------------------------------------------------------------------
(* Two POST /assess-all requests in progress at once, served by two server *)
(* processes on the same database (inside one process a handler, being an  *)
(* async def without await, runs to its end before the next one starts).   *)
(* request, session and log hold one value for each request: get_db gives  *)
(* every request a Session of its own (core/database.py 25-30), whose      *)
(* queries see committed rows only.                                        *)

Requests == {"first", "second"}

Finished(r) == IF request[r] = None THEN TRUE ELSE request[r].pc = "done"

\* Lines 177-193, for request r.
ConcurrentBegin(r) ==
    /\ Finished(r)
    /\ session' = [session EXCEPT ![r] = << >>]
    /\ log' = [log EXCEPT ![r] = << >>]
    /\ IF active = {}
       THEN request' = [request EXCEPT ![r] = Begin(<< >>, risk_assessments)]
       ELSE \E order \in Orders(active) :
               request' = [request EXCEPT ![r] = Begin(order, risk_assessments)]
    /\ UNCHANGED <<assessorVars, dbVars, student, features, risk_levels,
                   model_outputs, ml_results, assessment, recommendations>>
    /\ UNCHANGED <<active, faulty, risk_assessments, trainVars>>

\* Lines 195-246, for request r.
ConcurrentStep(r) ==
    /\ ~Finished(r)
    /\ request[r].pc = "loop"
    /\ LET out == LoopTurn(request[r], session[r], log[r], risk_assessments) IN
          /\ request' = [request EXCEPT ![r] = out.request]
          /\ session' = [session EXCEPT ![r] = out.session]
          /\ log' = [log EXCEPT ![r] = out.log]
          /\ risk_assessments' = out.table
    /\ UNCHANGED <<assessorVars, dbVars, student, features, risk_levels,
                   model_outputs, ml_results, assessment, recommendations>>
    /\ UNCHANGED <<active, faulty, trainVars>>

\* Lines 248-260, for request r.
ConcurrentCommit(r) ==
    /\ ~Finished(r)
    /\ request[r].pc = "commit"
    /\ \E out \in Commit(request[r], session[r], risk_assessments) :
          /\ request' = [request EXCEPT ![r] = out.request]
          /\ risk_assessments' = out.table
    /\ session' = [session EXCEPT ![r] = << >>]
    /\ UNCHANGED <<assessorVars, dbVars, student, features, risk_levels,
                   model_outputs, ml_results, assessment, recommendations>>
    /\ UNCHANGED <<active, faulty, log, trainVars>>

InitConcurrent ==
    /\ recommendations = None
    /\ NoTraining
    /\ settings = DefaultSettings
    /\ models = << >>
    /\ scaler = "unfitted"
    /\ students = {[id |-> id, enrollment_date |-> <<0>>] : id \in StudentIds}
    /\ today = 0
    /\ attendance = SampleAttendance
    /\ exam_scores = SampleExamScores
    /\ fees = SampleFees
    /\ NoCall
    /\ active \in SUBSET StudentIds
    /\ faulty \in SUBSET StudentIds
    /\ risk_assessments = << >>
    /\ session = [r \in Requests |-> << >>]
    /\ request = [r \in Requests |-> None]
    /\ log = [r \in Requests |-> << >>]

NextConcurrent ==
    \E r \in Requests :
        \/ ConcurrentBegin(r)
        \/ ConcurrentStep(r)
        \/ ConcurrentCommit(r)

SpecConcurrent == InitConcurrent /\ [][NextConcurrent]_vars

----------------------------------------------------------------------------
(* RiskAssessor.load_models, save_models and train_models.  The model      *)
(* directory maps a file name to [object, readable]: the object dumped,    *)
(* and whether joblib.load can read the file back.                         *)

TrainedModel == [has_predict_proba |-> TRUE]

File(object) == [object |-> object, readable |-> TRUE]
Truncated(object) == [object |-> object, readable |-> FALSE]

\* Mutant: nothing is loaded unless the three files are all there.
load_models_complete_only(files) ==
    LET names == {"logistic_regression.joblib", "random_forest.joblib",
                  "scaler.joblib"}
    IN IF names \subseteq DOMAIN files
          /\ \A n \in names : files[n].readable
       THEN [models |-> ("logistic" :> files["logistic_regression.joblib"].object)
                        @@ ("random_forest" :> files["random_forest.joblib"].object),
             scaler |-> files["scaler.joblib"].object]
       ELSE [models |-> << >>, scaler |-> "unfitted"]

\* Lines 24-38: the three files are looked for in turn inside one try; the
\* first load that raises ends the loading, with what was loaded before it.
load_models(files) ==
    LET has(name) == name \in DOMAIN files
        m0 == << >>
        fail1 == has("logistic_regression.joblib")
                 /\ ~files["logistic_regression.joblib"].readable
        m1 == IF has("logistic_regression.joblib") /\ ~fail1
              THEN "logistic" :> files["logistic_regression.joblib"].object
              ELSE m0
        fail2 == has("random_forest.joblib")
                 /\ ~files["random_forest.joblib"].readable
        m2 == IF has("random_forest.joblib") /\ ~fail2
              THEN m1 @@ ("random_forest" :> files["random_forest.joblib"].object)
              ELSE m1
        fail3 == has("scaler.joblib") /\ ~files["scaler.joblib"].readable
    IN IF fail1 THEN [models |-> m0, scaler |-> "unfitted"]
       ELSE IF fail2 THEN [models |-> m1, scaler |-> "unfitted"]
       ELSE IF fail3 \/ ~has("scaler.joblib")
       THEN [models |-> m2, scaler |-> "unfitted"]
       ELSE [models |-> m2, scaler |-> files["scaler.joblib"].object]

\* Line 44: f"{name}.joblib"
FileOf(name) ==
    CASE name = "logistic" -> "logistic.joblib"
      [] name = "random_forest" -> "random_forest.joblib"

\* The order of self.models.items(): the order in which the keys were first
\* set, by load_models and then by lines 345-346.
SaveOrder(loaded) ==
    IF "random_forest" \in DOMAIN loaded /\ "logistic" \notin DOMAIN loaded
    THEN <<"random_forest", "logistic">>
    ELSE <<"logistic", "random_forest">>

\* Lines 40-45: each model, then the scaler, is dumped.  `written` dumps
\* succeed; the next one raises, leaving its file untouched or truncated.
save_models(ms, sc, order, files, written, truncates) ==
    LET dumps == [i \in 1..3 |->
                    IF i = 3 THEN <<"scaler.joblib", sc>>
                    ELSE <<FileOf(order[i]), ms[order[i]]>>]
        target(name) == CHOOSE i \in 1..3 : dumps[i][1] = name
        names == {dumps[i][1] : i \in 1..3}
        touched == {n \in names :
                       \/ target(n) <= written
                       \/ truncates /\ target(n) = written + 1}
    IN [n \in touched \cup DOMAIN files |->
           IF n \in touched
           THEN IF target(n) <= written THEN File(dumps[target(n)][2])
                ELSE Truncated(dumps[target(n)][2])
           ELSE files[n]]

\* What a dataset makes of a training run: the step that raises, if any, and
\* the accuracies measured.  An empty DataFrame cannot be split (line 326).
Faults == {"none", "split", "scale", "logistic", "random_forest", "save"}

TrainingSets ==
    {[empty |-> TRUE, fault |-> "split", written |-> 0, truncates |-> FALSE]}
    \cup {[empty |-> FALSE, fault |-> f, written |-> 0, truncates |-> FALSE] :
             f \in Faults \ {"save"}}
    \cup [empty : {FALSE}, fault : {"save"}, written : 0..2, truncates : BOOLEAN]

Raised(st) == [st EXCEPT !.result = [raised |-> TRUE, returned |-> None]]

\* Mutant: the scaler is dumped as soon as it is fitted.
FitScalerAndDump(st) ==
    [st EXCEPT !.scaler = "fitted",
               !.artifacts = ("scaler.joblib" :> File("fitted")) @@ @]

\* Lines 331-332: fit_transform refits self.scaler in place; nothing is
\* written.
FitScaler(st) == [st EXCEPT !.scaler = "fitted"]

\* Lines 319-355.  A scaler whose fit raises keeps its statistics or has
\* lost them; once fit_transform has returned the scaler is the new one,
\* whatever happens to the models.
Fit(data, st) ==
    LET rescaled == FitScaler(st)
        trained == [rescaled EXCEPT
                       !.models = ("logistic" :> TrainedModel)
                                  @@ ("random_forest" :> TrainedModel)]
        saved(written, truncates) ==
            [trained EXCEPT
                !.artifacts = save_models(trained.models, trained.scaler,
                                          SaveOrder(st.models), st.artifacts,
                                          written, truncates)]
    IN CASE data.fault = "split" -> {Raised(st)}
         [] data.fault = "scale" ->
               {Raised(st), Raised([st EXCEPT !.scaler = "unfitted"])}
         [] data.fault \in {"logistic", "random_forest"} -> {Raised(rescaled)}
         [] data.fault = "save" -> {Raised(saved(data.written, data.truncates))}
         [] data.fault = "none" ->
               {[saved(3, FALSE) EXCEPT
                    !.result =
                       [raised |-> FALSE,
                        returned |-> [logistic_accuracy |-> "lr_score",
                                      random_forest_accuracy |-> "rf_score"]]]}

\* Mutant: the test for an empty dataset left out.
train_models_unguarded(data, st) == Fit(data, st)

\* Lines 314-355: the outcomes of train_models(training_data, target_column).
train_models(data, st) ==
    IF data.empty
    THEN {[st EXCEPT !.result = [raised |-> FALSE, returned |-> None]]}
    ELSE Fit(data, st)

TrainModels(data) ==
    /\ \E out \in train_models(data, [models |-> models, scaler |-> scaler,
                                      artifacts |-> artifacts,
                                      result |-> None]) :
          /\ models' = out.models
          /\ scaler' = out.scaler
          /\ artifacts' = out.artifacts
          /\ train_result' = out.result
    /\ training_data' = data
    /\ UNCHANGED <<settings, dbVars, student, features, risk_levels,
                   model_outputs, ml_results, assessment, recommendations,
                   endpointVars>>

\* Lines 18-22: a new RiskAssessor() reads the model directory.
NewRiskAssessor ==
    /\ models' = load_models(artifacts).models
    /\ scaler' = load_models(artifacts).scaler
    /\ training_data' = None
    /\ train_result' = None
    /\ UNCHANGED <<settings, dbVars, student, features, risk_levels,
                   model_outputs, ml_results, assessment, recommendations,
                   endpointVars, artifacts>>

\* The model directories a RiskAssessor may find: any of the files the class
\* reads or writes, readable or not.
ModelFileNames ==
    {"logistic_regression.joblib", "logistic.joblib", "random_forest.joblib"}

ModelFiles ==
    {File(TrainedModel), File([has_predict_proba |-> FALSE]),
     Truncated(TrainedModel)}

ScalerFiles == {File("fitted"), File("mismatched"), Truncated("fitted")}

ModelDirectories ==
    {model_files @@ scaler_file :
        model_files \in UNION {[names -> ModelFiles] :
                                  names \in SUBSET ModelFileNames},
        scaler_file \in {<< >>} \cup {"scaler.joblib" :> c : c \in ScalerFiles}}

InitTrain ==
    /\ recommendations = None
    /\ NoEndpoint
    /\ settings = DefaultSettings
    /\ NoDatabase
    /\ NoCall
    /\ artifacts \in ModelDirectories
    /\ models = load_models(artifacts).models
    /\ scaler = load_models(artifacts).scaler
    /\ training_data = None
    /\ train_result = None

NextTrain ==
    \/ \E data \in TrainingSets : TrainModels(data)
    \/ NewRiskAssessor

SpecTrain == InitTrain /\ [][NextTrain]_vars

----------------------------------------------------------------------------
(* A RiskAssessor constructed on some model directory and then asked, any  *)
(* number of times and in any order, for rule levels, predictions,         *)
(* recommendations and full assessments.  Each call's arguments and result *)
(* are held until the caller drops them.                                   *)

\* Mutant: the features are scaled with fit_transform.
TransformRefitting(sc) == "fitted"

\* Line 183: self.scaler.transform reads the scaler's statistics, or raises
\* and is caught (184-185); either way the scaler object is as before.
Transform(sc) == sc

\* Lines 158-185: with no model the method returns at line 159, before the
\* scaler is used.
ScalerAfterPrediction == IF DOMAIN models = {} THEN scaler ELSE Transform(scaler)

Ready == NoCall /\ recommendations = None

ServeRuleBasedAssessment ==
    /\ Ready
    /\ \E f \in MLInputs :
          /\ features' = f
          /\ risk_levels' = rule_based_assessment(f)
    /\ UNCHANGED <<assessorVars, dbVars, student, model_outputs, ml_results,
                   assessment, recommendations, endpointVars, trainVars>>

ServeMlPrediction ==
    /\ Ready
    /\ \E f \in MLInputs :
          LET x == ScaleFeatures(FeatureVector(f)) IN
          \E outs \in [DOMAIN models -> ProbaOutputs \cup PredOutputs] :
              /\ \A n \in DOMAIN models : outs[n] \in ModelOutputs(models[n], x)
              /\ features' = f
              /\ model_outputs' = outs
              /\ ml_results' = ml_prediction(f, outs)
    /\ scaler' = ScalerAfterPrediction
    /\ UNCHANGED <<settings, models, dbVars, student, risk_levels, assessment,
                   recommendations, endpointVars, trainVars>>

ServeGenerateRecommendations ==
    /\ Ready
    /\ \E f \in MLInputs, ml \in MLResultInputs :
          /\ features' = f
          /\ risk_levels' = rule_based_assessment(f)
          /\ ml_results' = ml
          /\ recommendations' =
                <<generate_recommendations(f, rule_based_assessment(f), ml)>>
    /\ UNCHANGED <<assessorVars, dbVars, student, model_outputs, assessment,
                   endpointVars, trainVars>>

ServeAssessStudentRisk(st) ==
    /\ Ready
    /\ LET x == ScaleFeatures(FeatureVector(extract_features(st))) IN
       \E outs \in [DOMAIN models -> ProbaOutputs \cup PredOutputs] :
           /\ \A n \in DOMAIN models : outs[n] \in ModelOutputs(models[n], x)
           /\ model_outputs' = outs
           /\ assessment' = assess_student_risk(st, outs)
    /\ student' = st
    /\ scaler' = ScalerAfterPrediction
    /\ UNCHANGED <<settings, models, dbVars, features, risk_levels, ml_results,
                   recommendations, endpointVars, trainVars>>

\* The caller is done with the result.
DropResult ==
    /\ ~Ready
    /\ ClearCall
    /\ recommendations' = None
    /\ UNCHANGED <<assessorVars, dbVars, endpointVars, trainVars>>

InitServe ==
    /\ recommendations = None
    /\ NoEndpoint
    /\ settings = DefaultSettings
    /\ students = {[id |-> id, enrollment_date |-> <<0>>] : id \in StudentIds}
    /\ today = 0
    /\ attendance = SampleAttendance
    /\ exam_scores = SampleExamScores
    /\ fees = SampleFees
    /\ NoCall
    /\ artifacts \in ModelDirectories
    /\ models = load_models(artifacts).models
    /\ scaler = load_models(artifacts).scaler
    /\ training_data = None
    /\ train_result = None

NextServe ==
    \/ ServeRuleBasedAssessment
    \/ ServeMlPrediction
    \/ ServeGenerateRecommendations
    \/ \E st \in students : ServeAssessStudentRisk(st)
    \/ DropResult

SpecServe == InitServe /\ [][NextServe]_vars

----------------------------------------------------------------------------
(* Properties of rule_based_assessment, checked under SpecRules.           *)

\* The RiskLevel order GREEN < YELLOW < RED.
LevelOrder == <<"green", "yellow", "red">>
LevelRank(l) == CHOOSE i \in 1..Len(LevelOrder) : LevelOrder[i] = l
LevelLeq(a, b) == LevelRank(a) <= LevelRank(b)
Categories == {"attendance", "academic", "financial"}

\* C1: for every feature vector (missing keys included) the profile returned
\* by rule_based_assessment has overall equal to the maximum of its
\* attendance, academic and financial levels under GREEN < YELLOW < RED:
\* overall is one of the three levels and no level is worse than it.
C1_OverallIsMax ==
    risk_levels # None =>
        /\ \E k \in Categories : risk_levels.overall = risk_levels[k]
        /\ \A k \in Categories : LevelLeq(risk_levels[k], risk_levels.overall)

\* A profile whose three category levels are pairwise different.
C1_Witness ==
    /\ risk_levels # None
    /\ risk_levels.attendance = "green"
    /\ risk_levels.academic = "yellow"
    /\ risk_levels.financial = "red"
    /\ risk_levels.overall = "red"

\* C2: with the default thresholds, attendance_percentage >= 75 gives GREEN,
\* 60 <= attendance_percentage < 75 gives YELLOW and attendance_percentage
\* < 60 gives RED.
C2_AttendanceBoundaries ==
    (settings = DefaultSettings /\ risk_levels # None) =>
        LET a == Get(features, "attendance_percentage", Zero) IN
        /\ RGe(a, Rat(75, 1)) => risk_levels.attendance = "green"
        /\ (RGe(a, Rat(60, 1)) /\ RLt(a, Rat(75, 1)))
              => risk_levels.attendance = "yellow"
        /\ RLt(a, Rat(60, 1)) => risk_levels.attendance = "red"

\* Exactly 75 classified GREEN under the default thresholds.
C2_Witness ==
    /\ settings = DefaultSettings
    /\ risk_levels # None
    /\ "attendance_percentage" \in DOMAIN features
    /\ features["attendance_percentage"] = Rat(75, 1)
    /\ risk_levels.attendance = "green"

\* C3: the academic level follows average_score against the configured
\* thresholds: >= score_safe gives GREEN, score_warning <= average_score <
\* score_safe gives YELLOW, otherwise RED; an average_score of 0 (no exam
\* records) is RED.
C3_AcademicThresholds ==
    risk_levels # None =>
        LET s == Get(features, "average_score", Zero) IN
        /\ RGe(s, settings.SCORE_SAFE_THRESHOLD) => risk_levels.academic = "green"
        /\ (RGe(s, settings.SCORE_WARNING_THRESHOLD)
            /\ RLt(s, settings.SCORE_SAFE_THRESHOLD))
              => risk_levels.academic = "yellow"
        /\ (RLt(s, settings.SCORE_WARNING_THRESHOLD)
            /\ RLt(s, settings.SCORE_SAFE_THRESHOLD))
              => risk_levels.academic = "red"
        /\ REq(s, Zero) => risk_levels.academic = "red"

\* An average_score of exactly 0 classified RED.
C3_Witness ==
    /\ risk_levels # None
    /\ "average_score" \in DOMAIN features
    /\ features["average_score"] = Zero
    /\ risk_levels.academic = "red"

\* C4: the financial level follows overdue_fees_ratio with fixed cut-offs,
\* whatever thresholds are configured: ratio = 0 gives GREEN, 0 < ratio <=
\* 0.3 gives YELLOW, ratio > 0.3 gives RED.
C4_FinancialCutoffs ==
    risk_levels # None =>
        LET r == Get(features, "overdue_fees_ratio", Zero) IN
        /\ REq(r, Zero) => risk_levels.financial = "green"
        /\ (RGt(r, Zero) /\ RLe(r, Rat(3, 10))) => risk_levels.financial = "yellow"
        /\ RGt(r, Rat(3, 10)) => risk_levels.financial = "red"

\* A ratio of exactly 0.3 classified YELLOW under non-default thresholds.
C4_Witness ==
    /\ settings # DefaultSettings
    /\ risk_levels # None
    /\ "overdue_fees_ratio" \in DOMAIN features
    /\ features["overdue_fees_ratio"] = Rat(3, 10)
    /\ risk_levels.financial = "yellow"

----------------------------------------------------------------------------
(* Properties of ml_prediction, checked under SpecML.                      *)

RMulInt(a, n) == Rat(a[1] * n, a[2])

RECURSIVE RSumOver(_, _)
RSumOver(d, S) ==
    IF S = {} THEN Zero
    ELSE LET n == CHOOSE m \in S : TRUE IN RAdd(d[n], RSumOver(d, S \ {n}))

Loaded == DOMAIN models
Succeeded == {n \in Loaded : ~model_outputs[n].raises}
MLReturned == ml_results # None

\* C5: with zero loaded models ml_prediction returns dropout_probability 0.5
\* and confidence 0.0 for every input feature vector.
C5_NoModelsNeutralPrior ==
    (MLReturned /\ Loaded = {}) =>
        /\ REq(ml_results.dropout_probability, Rat(1, 2))
        /\ REq(ml_results.confidence, Zero)

\* A call with a non-empty feature dict and no model loaded has returned.
C5_Witness ==
    /\ MLReturned
    /\ Loaded = {}
    /\ "attendance_percentage" \in DOMAIN features
    /\ ml_results.dropout_probability = Rat(1, 2)

\* C6: the dropout_probability returned by ml_prediction is within [0, 1]
\* for any input and any loaded models, whether a model answers through
\* predict_proba, through a raw prediction cast to float, or fails.
C6_ProbabilityInUnitInterval ==
    MLReturned =>
        /\ RGe(ml_results.dropout_probability, Zero)
        /\ RLe(ml_results.dropout_probability, Rat(1, 1))

\* C7: a model that raises contributes score 0.5 and confidence 0.0 for
\* itself only: every loaded model has an entry in the result, a failed
\* model's entry is 0.5, every other model's entry is the score of its own
\* answer, and the confidences add up to 0.8 per model that answered.
C7_FailureIsolated ==
    (MLReturned /\ Loaded # {}) =>
        /\ DOMAIN ml_results.model_predictions = Loaded
        /\ \A n \in Loaded :
              IF model_outputs[n].raises
              THEN ml_results.model_predictions[n] = Rat(1, 2)
              ELSE IF models[n].has_predict_proba
              THEN ml_results.model_predictions[n]
                     = model_outputs[n].proba[IF Len(model_outputs[n].proba) > 1
                                              THEN 2 ELSE 1]
              ELSE ml_results.model_predictions[n] = model_outputs[n].pred
        /\ REq(RMulInt(ml_results.confidence, Cardinality(Loaded)),
               Rat(8 * Cardinality(Succeeded), 10))

\* The first model raised, the second answered 0.3 and is reported with 0.3.
C7_Witness ==
    /\ MLReturned
    /\ Loaded = ModelNames
    /\ model_outputs["logistic"].raises
    /\ ~model_outputs["random_forest"].raises
    /\ ml_results.model_predictions["logistic"] = Rat(1, 2)
    /\ ml_results.model_predictions["random_forest"] = Rat(3, 10)

\* C8: with at least one loaded model, dropout_probability is the
\* arithmetic mean of the per-model scores and confidence is the arithmetic
\* mean of the per-model confidences (0.8 per success, 0.0 per failure):
\* confidence = 0.8 * successes / models, and it is 0.0 exactly when every
\* model failed.
C8_EnsembleMeans ==
    (MLReturned /\ Loaded # {}) =>
        /\ REq(RMulInt(ml_results.dropout_probability, Cardinality(Loaded)),
               RSumOver(ml_results.model_predictions, Loaded))
        /\ REq(ml_results.confidence,
               Rat(8 * Cardinality(Succeeded), 10 * Cardinality(Loaded)))
        /\ REq(ml_results.confidence, Zero) <=> Succeeded = {}

\* Two models, one failed and one answered 0.1: probability 0.3, confidence 0.4.
C8_Witness ==
    /\ MLReturned
    /\ Loaded = ModelNames
    /\ Cardinality(Succeeded) = 1
    /\ REq(ml_results.dropout_probability, Rat(3, 10))
    /\ REq(ml_results.confidence, Rat(4, 10))

----------------------------------------------------------------------------
(* Properties of assess_student_risk, checked under SpecAssess.            *)

\* C9: assess_student_risk derives ml_risk_level from dropout_probability p:
\* p < 0.3 gives GREEN, 0.3 <= p < 0.6 gives YELLOW, p >= 0.6 gives RED.
C9_MlRiskLevelBuckets ==
    assessment # None =>
        LET p == assessment.ml_prediction.dropout_probability IN
        /\ RLt(p, Rat(3, 10)) => assessment.ml_risk_level = "green"
        /\ (RGe(p, Rat(3, 10)) /\ RLt(p, Rat(6, 10)))
              => assessment.ml_risk_level = "yellow"
        /\ RGe(p, Rat(6, 10)) => assessment.ml_risk_level = "red"

\* An assessment whose two models average to exactly 0.3, reported YELLOW.
C9_Witness ==
    /\ assessment # None
    /\ Loaded = ModelNames
    /\ Succeeded = ModelNames
    /\ REq(assessment.ml_prediction.dropout_probability, Rat(3, 10))
    /\ assessment.ml_risk_level = "yellow"

----------------------------------------------------------------------------
(* Properties of extract_features, checked under Spec.                     *)

NoRecords(id) ==
    /\ RowsOf(attendance, id) = << >>
    /\ RowsOf(exam_scores, id) = << >>
    /\ RowsOf(fees, id) = << >>

\* C10: extract_features on a student with no attendance, exam or fee
\* records returns attendance_percentage = 0.0, total_sessions = 0,
\* average_score = 0.0, failed_exams = 0 and overdue_fees_ratio = 0.
C10_NoRecordsDefaults ==
    (student # None /\ features # None /\ NoRecords(student.id)) =>
        /\ {"attendance_percentage", "total_sessions", "average_score",
            "failed_exams", "overdue_fees_ratio"} \subseteq DOMAIN features
        /\ REq(features["attendance_percentage"], Zero)
        /\ REq(features["total_sessions"], Zero)
        /\ REq(features["average_score"], Zero)
        /\ REq(features["failed_exams"], Zero)
        /\ REq(features["overdue_fees_ratio"], Zero)

\* Features extracted for a student without records while the tables hold
\* rows of another student.
C10_Witness ==
    /\ student # None
    /\ features # None
    /\ NoRecords(student.id)
    /\ attendance # << >>
    /\ fees # << >>
    /\ REq(features["attendance_percentage"], Zero)

Extracted == student # None /\ features # None

\* C11: for every collection of attendance and fee records the extracted
\* features satisfy 0 <= attendance_percentage <= 100 and 0 <=
\* overdue_fees_ratio <= 1, with overdue_fees_count <= total_fees and
\* failed_exams <= total_exams.
C11_FeatureRanges ==
    Extracted =>
        /\ RGe(features["attendance_percentage"], Zero)
        /\ RLe(features["attendance_percentage"], Rat(100, 1))
        /\ RGe(features["overdue_fees_ratio"], Zero)
        /\ RLe(features["overdue_fees_ratio"], Rat(1, 1))
        /\ RLe(features["overdue_fees_count"], features["total_fees"])
        /\ RLe(features["failed_exams"], features["total_exams"])

\* Features of a student whose only session was attended and whose only fee
\* is overdue, while the tables hold nothing else: both upper ends are met.
C11_Witness ==
    /\ Extracted
    /\ REq(features["total_sessions"], Rat(1, 1))
    /\ REq(features["attendance_percentage"], Rat(100, 1))
    /\ REq(features["total_fees"], Rat(1, 1))
    /\ REq(features["overdue_fees_ratio"], Rat(1, 1))

TenFields ==
    {"attendance_percentage", "total_sessions", "average_score", "score_std",
     "failed_exams", "total_exams", "overdue_fees_count", "total_fees",
     "overdue_fees_ratio", "days_enrolled"}

\* C12 as stated: every feature vector returned by extract_features
\* contains all ten named fields, also when the enrollment date is unknown.
C12_AllTenFieldsPresent ==
    Extracted => TenFields \subseteq DOMAIN features

\* C12 as amended: the nine attendance, academic and financial fields are
\* always present; days_enrolled is present exactly when the student's
\* enrollment date is known, and is then the number of days since it.
C12_FieldsPresentExceptUnknownEnrollment ==
    Extracted =>
        /\ TenFields \ {"days_enrolled"} \subseteq DOMAIN features
        /\ DOMAIN features \subseteq TenFields
        /\ "days_enrolled" \in DOMAIN features <=> student.enrollment_date # << >>
        /\ "days_enrolled" \in DOMAIN features =>
              features["days_enrolled"] = Rat(today - student.enrollment_date[1], 1)

\* Features of a student without enrollment date and without records: the
\* nine defaults are there, days_enrolled is not.
C12_Witness ==
    /\ Extracted
    /\ student.enrollment_date = << >>
    /\ NoRecords(student.id)
    /\ "days_enrolled" \notin DOMAIN features
    /\ "score_std" \in DOMAIN features

----------------------------------------------------------------------------
(* Properties of generate_recommendations, checked under SpecRecs.         *)

Recommended == recommendations # None
AtRisk(level) == level \in {"yellow", "red"}
NoCategoryAtRisk ==
    \A c \in {"attendance", "academic", "financial"} : risk_levels[c] = "green"

\* C19: generate_recommendations returns an empty sequence whenever
\* attendance, academic and financial are all GREEN and dropout_probability
\* <= 0.5; whenever a category is YELLOW or RED or dropout_probability > 0.5
\* the sequence is non-empty.
C19_EmptyIffNothingAtRisk ==
    Recommended =>
        LET quiet == /\ NoCategoryAtRisk
                     /\ RLe(ml_results.dropout_probability, Rat(1, 2))
        IN /\ quiet => recommendations[1] = << >>
           /\ ~quiet => recommendations[1] # << >>

\* An empty list at probability exactly 0.5 with no category at risk.
C19_Witness ==
    /\ Recommended
    /\ NoCategoryAtRisk
    /\ ml_results.dropout_probability = Rat(1, 2)
    /\ recommendations[1] = << >>

\* Position of a message in the returned list, 0 if absent.
Index(message) ==
    LET recs == recommendations[1]
        at == {i \in 1..Len(recs) : recs[i] = message}
    IN IF at = {} THEN 0 ELSE CHOOSE i \in at : \A j \in at : i <= j

Listed(message) == Index(message) > 0

\* C23: when financial is YELLOW or RED the list gets "Immediate financial
\* counseling required" if overdue_fees_ratio > 0.5, else "Schedule fee
\* payment discussion" if the ratio > 0.2, and in each case "Explore
\* financial aid and payment plan options" right after it; for a ratio of at
\* most 0.2 the category contributes the reminder alone.
C23_FinancialRecommendations ==
    (Recommended /\ AtRisk(risk_levels["financial"])) =>
        LET ratio == Get(features, "overdue_fees_ratio", Zero)
            immediate == "Immediate financial counseling required"
            discussion == "Schedule fee payment discussion"
            reminder == "Explore financial aid and payment plan options"
            specific == IF RGt(ratio, Rat(1, 2)) THEN {immediate}
                        ELSE IF RGt(ratio, Rat(2, 10)) THEN {discussion}
                        ELSE {}
        IN /\ \A m \in {immediate, discussion} : Listed(m) <=> m \in specific
           /\ Listed(reminder)
           /\ \A m \in specific : Index(reminder) = Index(m) + 1
           /\ specific = {} =>
                 \A i \in 1..Len(recommendations[1]) :
                    recommendations[1][i] = reminder => i = Index(reminder)

\* A ratio of exactly 0.2 with nothing else at risk: the reminder alone.
C23_Witness ==
    /\ Recommended
    /\ risk_levels["financial"] = "yellow"
    /\ REq(Get(features, "overdue_fees_ratio", Zero), Rat(2, 10))
    /\ recommendations[1] = <<"Explore financial aid and payment plan options">>

\* C29: for every configuration of thresholds the rule level and the
\* category message agree: attendance is RED exactly when the list holds
\* "Immediate intervention required for attendance" and YELLOW exactly when
\* it holds "Schedule meeting with student and parents about attendance",
\* and likewise academic RED / YELLOW with "Urgent academic support needed"
\* / "Schedule extra classes and academic counseling".
C29_LevelAndMessageAgree ==
    Recommended =>
        /\ risk_levels["attendance"] = "red"
              <=> Listed("Immediate intervention required for attendance")
        /\ risk_levels["attendance"] = "yellow"
              <=> Listed("Schedule meeting with student and parents about attendance")
        /\ risk_levels["academic"] = "red"
              <=> Listed("Urgent academic support needed")
        /\ risk_levels["academic"] = "yellow"
              <=> Listed("Schedule extra classes and academic counseling")

----------------------------------------------------------------------------
(* The two worked scenarios, checked under SpecAssess.                     *)

Assessed == assessment # None
AllLevels == {"attendance", "academic", "financial", "overall"}

\* Scenario A: attendance 80%, average score 70, nothing overdue, and a
\* predictor without models.
ScenarioA ==
    /\ Assessed
    /\ DOMAIN models = {}
    /\ REq(assessment.features["attendance_percentage"], Rat(80, 1))
    /\ REq(assessment.features["average_score"], Rat(70, 1))
    /\ REq(assessment.features["overdue_fees_ratio"], Zero)

ScenarioALevels ==
    /\ REq(assessment.ml_prediction.dropout_probability, Rat(1, 2))
    /\ \A k \in AllLevels : assessment.rule_based_risk[k] = "green"
    /\ assessment.ml_risk_level = "yellow"

\* C17 as stated: in scenario A all four rule levels are GREEN, ml_risk_level
\* is YELLOW and recommendations is exactly the moderate-dropout-risk
\* message.
C17_ScenarioAModerateMessage ==
    ScenarioA =>
        /\ ScenarioALevels
        /\ assessment.recommendations =
              <<"Moderate dropout risk - monitor closely and provide support">>

\* C17 as amended: in scenario A all four rule levels are GREEN,
\* ml_risk_level is YELLOW and recommendations is empty: the neutral
\* probability 0.5 is not above 0.5, so the ML trigger does not fire either.
C17_ScenarioANoRecommendation ==
    ScenarioA =>
        /\ ScenarioALevels
        /\ assessment.recommendations = << >>

C17_Witness ==
    /\ ScenarioA
    /\ student.id = 1
    /\ assessment.features["total_sessions"] = Rat(5, 1)
    /\ assessment.recommendations = << >>

\* Scenario B: attendance 50%, no exam records, 60% of the fees overdue.
ScenarioB ==
    /\ Assessed
    /\ REq(assessment.features["attendance_percentage"], Rat(50, 1))
    /\ assessment.features["total_exams"] = Zero
    /\ REq(assessment.features["overdue_fees_ratio"], Rat(6, 10))

\* Position of a message in the assessment's recommendations, 0 if absent.
Pos(message) ==
    LET recs == assessment.recommendations
        at == {i \in 1..Len(recs) : recs[i] = message}
    IN IF at = {} THEN 0 ELSE CHOOSE i \in at : \A j \in at : i <= j

CategoryReminders ==
    {"Implement attendance tracking and early warning system",
     "Assign peer mentor for academic support",
     "Explore financial aid and payment plan options"}

OverallRedAdditions ==
    <<"Schedule comprehensive counseling session",
      "Involve parents/guardians in intervention plan",
      "Weekly progress monitoring required">>

\* C18 as stated: in scenario B attendance, academic, financial and overall
\* are RED, and the recommendations include the three urgent category
\* messages, the three overall-RED additions and the three category
\* reminders, in that relative order: the reminders after the additions.
C18_ScenarioBListedOrder ==
    ScenarioB =>
        /\ \A k \in AllLevels : assessment.rule_based_risk[k] = "red"
        /\ 0 < Pos("Immediate intervention required for attendance")
        /\ Pos("Immediate intervention required for attendance")
              < Pos("Urgent academic support needed")
        /\ Pos("Urgent academic support needed")
              < Pos("Immediate financial counseling required")
        /\ Pos("Immediate financial counseling required")
              < Pos(OverallRedAdditions[1])
        /\ Pos(OverallRedAdditions[1]) < Pos(OverallRedAdditions[2])
        /\ Pos(OverallRedAdditions[2]) < Pos(OverallRedAdditions[3])
        /\ \A reminder \in CategoryReminders :
              Pos(OverallRedAdditions[3]) < Pos(reminder)

\* C18 as amended: in scenario B the four levels are RED and the
\* recommendations are, in this order, each urgent category message directly
\* followed by its category's reminder (attendance, academic, financial),
\* then the ML message if the dropout probability is above 0.5, then the
\* three overall-RED additions.
C18_ScenarioBBlockOrder ==
    ScenarioB =>
        LET recs == assessment.recommendations
            n == Len(recs)
            p == assessment.ml_prediction.dropout_probability
        IN /\ \A k \in AllLevels : assessment.rule_based_risk[k] = "red"
           /\ n = IF RGt(p, Rat(1, 2)) THEN 10 ELSE 9
           /\ SubSeq(recs, 1, 6) =
                 <<"Immediate intervention required for attendance",
                   "Implement attendance tracking and early warning system",
                   "Urgent academic support needed",
                   "Assign peer mentor for academic support",
                   "Immediate financial counseling required",
                   "Explore financial aid and payment plan options">>
           /\ n = 10 =>
                 recs[7] \in
                    {"High dropout risk - implement comprehensive intervention plan",
                     "Moderate dropout risk - monitor closely and provide support"}
           /\ SubSeq(recs, n - 2, n) = OverallRedAdditions

\* Scenario B assessed by a predictor whose models put the probability above
\* 0.5: all ten recommendations.
C18_Witness ==
    /\ ScenarioB
    /\ student.id = 2
    /\ Len(assessment.recommendations) = 10
    /\ Pos("Weekly progress monitoring required") = 10

----------------------------------------------------------------------------
(* Properties of the two assessment endpoints, checked under SpecBatch.    *)

InBatch == IF request = None THEN FALSE ELSE request.endpoint = "assess-all"
LoopDone == InBatch /\ request.pc \in {"commit", "done"}
Answered == InBatch /\ request.pc = "done"
CommitFailed ==
    /\ request.status = 500
    /\ request.body = [detail |-> "Error saving assessments"]

\* The students of the batch, and those of them that had no committed
\* assessment dated today when the batch began.
BatchStudents ==
    {request.active_students[i] : i \in 1..Len(request.active_students)}
Due ==
    {id \in BatchStudents :
        \A i \in 1..request.rows_before :
            ~(/\ risk_assessments[i].student_id = id
              /\ risk_assessments[i].assessment_date = request.date)}
CreatedFor(id) ==
    {i \in 1..Len(request.created) : request.created[i].student_id = id}
LoggedFor(id) ==
    {i \in 1..Len(log) : log[i] = <<"Error assessing student", id>>}

\* The rows committed since the call began.
StoredByCall ==
    SubSeq(risk_assessments, request.rows_before + 1, Len(risk_assessments))

\* C13: in a batch over the active students a failure while assessing one
\* student is caught and that student gets no assessment, every other student
\* due, before and after it in the iteration, is assessed, and the batch does
\* not abort: its only error answer is that of a failed commit.
C13_BatchFailureIsolated ==
    LoopDone =>
        /\ request.queue = << >>
        /\ \A id \in Due \cap faulty :
              CreatedFor(id) = {} /\ Cardinality(LoggedFor(id)) = 1
        /\ \A id \in Due \ faulty :
              Cardinality(CreatedFor(id)) = 1 /\ LoggedFor(id) = {}
        /\ request.status \in {0, 200} \/ CommitFailed

\* The first student of the batch raised, and the one after it was assessed.
C13_Witness ==
    /\ LoopDone
    /\ Len(request.active_students) = NumStudents
    /\ request.active_students[1] \in faulty
    /\ LoggedFor(request.active_students[1]) # {}
    /\ CreatedFor(request.active_students[2]) # {}

\* A batch in which exactly one student raised, the commit not failing.
OneStudentRaised == Answered /\ Len(log) = 1 /\ ~CommitFailed

OthersAssessed ==
    /\ request.status = 200
    /\ \A id \in Due \ faulty :
          \E i \in 1..Len(StoredByCall) : StoredByCall[i].student_id = id
    /\ \A id \in faulty : CreatedFor(id) = {}

C15_BatchAllOrNothing ==
    InBatch =>
        /\ request.pc \in {"loop", "commit"} => StoredByCall = << >>
        /\ request.pc = "done" =>
              /\ session = << >>
              /\ \/ request.status = 200 /\ StoredByCall = request.created
                 \/ CommitFailed /\ StoredByCall = << >>

\* A batch that created an assessment for every student and lost all of them
\* to a failed commit.
C15_Witness ==
    /\ Answered
    /\ CommitFailed
    /\ Len(request.created) = NumStudents
    /\ StoredByCall = << >>

\* C16: after any sequence of single-student and batch assessments the stored
\* assessments hold at most one record per (student, assessment_date).
C16_OneAssessmentPerStudentAndDay ==
    \A i, j \in 1..Len(risk_assessments) :
        (/\ risk_assessments[i].student_id = risk_assessments[j].student_id
         /\ risk_assessments[i].assessment_date
               = risk_assessments[j].assessment_date)
        => i = j

\* The rows a step finds committed are still there, unchanged, after it.
ExistingRowsKept ==
    /\ Len(risk_assessments') >= Len(risk_assessments)
    /\ SubSeq(risk_assessments', 1, Len(risk_assessments)) = risk_assessments

\* C30: the assessments_created that assess-all reports equals the number of
\* records added in that batch, which equals the number of active students
\* that had no assessment dated today and whose assessment did not raise; a
\* student that already has an assessment for today is skipped, and no step
\* of the batch changes a record that exists.
C30_CreatedCountsAddedRecords ==
    /\ [](Answered /\ request.status = 200 =>
            /\ request.body.assessments_created = Len(request.created)
            /\ Len(StoredByCall) = Len(request.created)
            /\ Len(request.created) = Cardinality(Due \ faulty)
            /\ \A id \in BatchStudents \ Due : CreatedFor(id) = {})
    /\ [][InBatch' => ExistingRowsKept]_vars

\* A batch over all students that skipped one of them, assessed today
\* already, and created one assessment.
C30_Witness ==
    /\ Answered
    /\ request.status = 200
    /\ Len(request.active_students) = NumStudents
    /\ BatchStudents \ Due # {}
    /\ request.body.assessments_created = 1
    /\ Len(risk_assessments) = request.rows_before + 1

----------------------------------------------------------------------------
(* Properties of train_models, checked under SpecTrain.                    *)

CalledWithEmpty(data) == IF data = None THEN FALSE ELSE data.empty

\* C20: train_models invoked with an empty dataset returns without fitting
\* anything, leaves the in-memory models and scaler and every persisted
\* artifact unchanged, and reports no model as trained: it returns None.
C20_EmptyTrainingChangesNothing ==
    [][CalledWithEmpty(training_data') =>
          /\ models' = models
          /\ scaler' = scaler
          /\ artifacts' = artifacts
          /\ train_result' = [raised |-> FALSE, returned |-> None]]_vars

\* An empty dataset given to an assessor that holds a loaded model and a
\* fitted scaler, with files in the model directory.
C20_Witness ==
    /\ CalledWithEmpty(training_data)
    /\ train_result = [raised |-> FALSE, returned |-> None]
    /\ "logistic" \in DOMAIN models
    /\ scaler = "fitted"
    /\ "random_forest.joblib" \in DOMAIN artifacts

\* A call of train_models whose scaler or classifier fit raised.
FittingFailed(data) ==
    IF data = None THEN FALSE
    ELSE ~data.empty /\ data.fault \in {"scale", "logistic", "random_forest"}

\* C21: artifacts are persisted only after successful fitting: when fitting
\* the scaler or either classifier fails during train_models no artifact
\* file is written or overwritten, the persisted scaler and models being
\* those that existed before the call.
C21_NothingPersistedWhenFittingFails ==
    [][FittingFailed(training_data') => artifacts' = artifacts]_vars

\* The logistic fit raised in an assessor whose directory holds a scaler
\* file that is not the one just fitted.
C21_Witness ==
    /\ FittingFailed(training_data)
    /\ training_data.fault = "logistic"
    /\ train_result = [raised |-> TRUE, returned |-> None]
    /\ scaler = "fitted"
    /\ "scaler.joblib" \in DOMAIN artifacts
    /\ artifacts["scaler.joblib"] = File("mismatched")

\* A call of train_models that raised.
TrainingRaised(data, result) ==
    IF data = None \/ result = None THEN FALSE ELSE result.raised

\* C27: the in-memory scaler and models come from the same training run or
\* the same loaded artifact set: a train_models call that fails part-way
\* leaves both the scaler and the model mapping as they were before the
\* call.
C27_FailedTrainingKeepsScalerAndModels ==
    [][TrainingRaised(training_data', train_result') =>
          models' = models /\ scaler' = scaler]_vars

\* A call of train_models that returned its accuracies.
TrainingSucceeded(data, result) ==
    IF data = None \/ result = None THEN FALSE
    ELSE ~result.raised /\ result.returned # None

\* C25: save/load round trip: after a successful train_models a newly
\* constructed RiskAssessor on the same model path loads exactly the models
\* and the scaler the training run produced, which the trained assessor
\* holds in memory.
C25_ReloadGivesTrainedModels ==
    [][(TrainingSucceeded(training_data, train_result) /\ training_data' = None)
          => models' = models /\ scaler' = scaler]_vars

\* The files load_models looks for, and the key or attribute each is loaded
\* into.
LoadedNames ==
    {"logistic_regression.joblib", "random_forest.joblib", "scaler.joblib"}

Present(name) == name \in DOMAIN artifacts
Readable(name) == IF Present(name) THEN artifacts[name].readable ELSE FALSE

IsLoaded(name) ==
    CASE name = "logistic_regression.joblib" ->
            IF "logistic" \in DOMAIN models
            THEN models["logistic"] = artifacts[name].object ELSE FALSE
      [] name = "random_forest.joblib" ->
            IF "random_forest" \in DOMAIN models
            THEN models["random_forest"] = artifacts[name].object ELSE FALSE
      [] name = "scaler.joblib" -> scaler = artifacts[name].object

\* The assessor has just been constructed on the model directory.
Constructed == training_data = None

\* C28: loading isolates failures per artifact: when loading one present
\* artifact raises, construction completes and every other present artifact,
\* the other model and the scaler, is loaded.
C28_LoadFailureIsolated ==
    (Constructed /\ \E bad \in LoadedNames : Present(bad) /\ ~Readable(bad)) =>
        \A name \in LoadedNames : Readable(name) => IsLoaded(name)

----------------------------------------------------------------------------
(* Properties of a constructed RiskAssessor, checked under SpecServe.      *)

\* C22: prediction and full assessment are read-only with respect to the
\* predictor state: no call of ml_prediction, rule_based_assessment,
\* generate_recommendations or assess_student_risk changes the loaded
\* models, the scaler or a persisted artifact, so after any number of calls
\* in any order the predictor state is the one loading gave.
C22_CallsKeepPredictorState ==
    /\ [](/\ models = load_models(artifacts).models
          /\ scaler = load_models(artifacts).scaler)
    /\ [][models' = models /\ scaler' = scaler /\ artifacts' = artifacts]_vars

\* A full assessment by two loaded models whose scaler does not fit the
\* feature vector.
C22_Witness ==
    /\ assessment # None
    /\ DOMAIN models = {"logistic", "random_forest"}
    /\ scaler = "mismatched"
    /\ DOMAIN assessment.ml_prediction.model_predictions # {}

\* Every file load_models looks for and finds can be read.
AllReadable == \A name \in LoadedNames : Present(name) => Readable(name)

\* The result of an ml_prediction call, if one is held.
Predicted ==
    IF assessment # None THEN {assessment.ml_prediction}
    ELSE IF ml_results # None /\ recommendations = None THEN {ml_results}
    ELSE {}

\* C24: for every subset of the three artifacts (logistic model, random
\* forest model, scaler) present and readable in the model directory the
\* constructed predictor holds exactly the models whose artifacts are
\* present, each as stored, and the stored scaler if there is one; with no
\* artifact present every prediction is the neutral prior.
C24_LoadsWhatIsPresent ==
    AllReadable =>
        /\ "logistic" \in DOMAIN models <=> Present("logistic_regression.joblib")
        /\ "random_forest" \in DOMAIN models <=> Present("random_forest.joblib")
        /\ DOMAIN models \subseteq {"logistic", "random_forest"}
        /\ \A name \in LoadedNames : Present(name) => IsLoaded(name)
        /\ ~Present("scaler.joblib") => scaler = "unfitted"
        /\ (\A name \in LoadedNames : ~Present(name)) =>
              \A result \in Predicted : result = NeutralPrior

\* Only the random forest and the scaler are present, and a prediction was
\* made with them.
C24_Witness ==
    /\ AllReadable
    /\ ~Present("logistic_regression.joblib")
    /\ Present("random_forest.joblib")
    /\ Present("scaler.joblib")
    /\ DOMAIN models = {"random_forest"}
    /\ scaler = artifacts["scaler.joblib"].object
    /\ ml_results # None
    /\ recommendations = None

----------------------------------------------------------------------------
(* Properties of concurrent batches, checked under SpecConcurrent.         *)

StoredFor(id, day) ==
    {i \in 1..Len(risk_assessments) :
        /\ risk_assessments[i].student_id = id
        /\ risk_assessments[i].assessment_date = day}

\* C26: under any interleaving of two concurrent assess-all requests, each
\* with its own session, checking for today's assessment and then adding a
\* record, with one commit at the end, no student ends up with two stored
\* assessments for the same date.
C26_NoDuplicateUnderConcurrency ==
    \A id \in StudentIds, day \in Days : Cardinality(StoredFor(id, day)) <= 1

====
